---- MODULE Spec2Model ----
(***************************************************************************)
(* Model of src/robusta/core/sinks/robusta/dal/supabase_dal.py:            *)
(* SupabaseDal (persist_finding, persist_service, get_active_services,     *)
(* sign_in, handle_supabase_error) and its record encoders (to_issue,      *)
(* to_evidence, to_service).                                               *)
(*                                                                         *)
(* Time is a discrete clock counted from the construction of the           *)
(* SupabaseDal.  The time of a sign-in call is the timestamp its attempt   *)
(* took at line 302, the statement right before the call at line 303.      *)
(***************************************************************************)
EXTENDS Integers, Sequences, FiniteSets, TLC

(* ------------------------------ bounds --------------------------------- *)
MaxClock == 6
MaxEnrichments == 2
MaxBlocks == 3
NumThreads == 2
MaxCalls == 2
MaxRefresh == 2

(* ------------------------- program constants --------------------------- *)
\* SUPABASE_LOGIN_RATE_LIMIT_SEC, imported at line 30 (scaled to clock ticks)
SUPABASE_LOGIN_RATE_LIMIT_SEC == 2

SERVICES_TABLE == "Services"

Threads == 1..NumThreads
\* the single caller of the sequential specification
Caller == 1

\* Python's None
None == "None"

\* values of the constructor arguments account_id and cluster_name
Tenants == {<<"acctA", "clusterA">>, <<"acctB", "clusterB">>}
TARGET_ID == "target"

\* status codes a backend response can carry
StatusCodes == {200, 201, 401}
\* ids the insert_finding_v1 procedure can return
FindingIds == {"id1", "id2"}

(* ------------------------------ blocks --------------------------------- *)
\* texts of Markdown and Header blocks; "" is the empty text
Texts == {"", "hello", "*bold*"}
\* filenames as character sequences; <<"r">> has no '.'
Filenames == {<<"r">>, <<"a", ".", "t">>, <<"a", ".", "b", ".", "c">>}

BlockKinds ==
    {"MarkdownBlock", "DividerBlock", "FileBlock", "HeaderBlock", "ListBlock",
     "TableBlock", "KubernetesDiffBlock", "CallbackBlock", "UnknownBlock"}

MkBlock(k, txt, fn) == [kind |-> k, text |-> txt, filename |-> fn]

Blocks ==
    {MkBlock("MarkdownBlock", txt, <<>>) : txt \in Texts}
    \cup {MkBlock("FileBlock", "", fn) : fn \in Filenames}
    \cup {MkBlock("HeaderBlock", "hello", <<>>)}
    \cup {MkBlock(k, "", <<>>) :
            k \in {"DividerBlock", "ListBlock", "TableBlock",
                   "KubernetesDiffBlock", "CallbackBlock", "UnknownBlock"}}

\* Transformer.to_github_markdown: *bold* becomes **bold**
ToGithubMarkdown(txt) == IF txt = "*bold*" THEN "**bold**" ELSE txt

\* str.rindex: the highest index of ch in s; 0 stands for ValueError
RECURSIVE RIndexFrom(_, _, _)
RIndexFrom(s, ch, i) ==
    IF i = 0 THEN 0
    ELSE IF s[i] = ch THEN i
    ELSE RIndexFrom(s, ch, i - 1)

RIndex(s, ch) == RIndexFrom(s, ch, Len(s))

\* the FileBlock branch raises exactly when rindex does (line 159)
BlockRaises(b) == b.kind = "FileBlock" /\ RIndex(b.filename, ".") = 0

\* one pass of the loop body of to_evidence (lines 147-216): the entries
\* the block appends to structured_data, none for a skipped block
EncodeBlock(b, target_id, sink_name) ==
    CASE b.kind = "MarkdownBlock" ->
           IF b.text = "" THEN <<>>
           ELSE <<[type |-> <<"markdown">>,
                   data |-> <<ToGithubMarkdown(b.text)>>]>>
      [] b.kind = "DividerBlock" -> <<[type |-> <<"divider">>]>>
      [] b.kind = "FileBlock" ->
           <<[type |-> SubSeq(b.filename, RIndex(b.filename, ".") + 1,
                              Len(b.filename)),
              data |-> <<"b64", "contents">>]>>
      [] b.kind = "HeaderBlock" ->
           <<[type |-> <<"header">>, data |-> <<b.text>>]>>
      [] b.kind = "ListBlock" ->
           <<[type |-> <<"list">>, data |-> <<"items">>]>>
      [] b.kind = "TableBlock" ->
           <<[type |-> <<"table">>,
              data |-> <<"headers", "rows", "column_renderers">>]>>
      [] b.kind = "KubernetesDiffBlock" ->
           <<[type |-> <<"diff">>, data |-> <<"old", "new">>]>>
      [] b.kind = "CallbackBlock" ->
           <<[type |-> <<"callbacks">>, data |-> <<target_id, sink_name>>]>>
      [] OTHER -> <<>>

\* the loop of to_evidence over enrichment.blocks (lines 145-216)
RECURSIVE StructuredData(_, _, _)
StructuredData(blocks, target_id, sink_name) ==
    IF blocks = <<>> THEN <<>>
    ELSE EncodeBlock(Head(blocks), target_id, sink_name)
         \o StructuredData(Tail(blocks), target_id, sink_name)

\* to_evidence raises when the loop reaches a block whose branch raises
ToEvidenceRaises(enrichment) ==
    \E i \in 1..Len(enrichment.blocks) : BlockRaises(enrichment.blocks[i])

\* mutant: the Evidence record is not bound to the tenant
to_evidence_untenanted(acct, target_id, sink_name, finding_id, enrichment) ==
    [finding_id |-> finding_id,
     data |-> [json |-> StructuredData(enrichment.blocks, target_id, sink_name)],
     account_id |-> None,
     category |-> enrichment.category]

\* the record to_evidence returns (lines 218-223)
to_evidence(acct, target_id, sink_name, finding_id, enrichment) ==
    [finding_id |-> finding_id,
     data |-> [json |-> StructuredData(enrichment.blocks, target_id, sink_name)],
     account_id |-> acct,
     category |-> enrichment.category]

\* the record to_issue returns (lines 122-142)
to_issue(acct, cl, finding) ==
    [name |-> finding.aggregation_key,
     account_id |-> acct,
     priority |-> finding.severity,
     fingerprint |-> finding.fingerprint,
     end_date |-> None,
     subject_name |-> finding.subject_name,
     subject_namespace |-> finding.subject_namespace,
     subject_cluster |-> cl]

\* ServiceInfo.get_service_key: the key derived from the identity of the
\* service, (name, namespace, type)
get_service_key(service) ==
    <<service.namespace, service.service_type, service.name>>

\* the record to_service returns (lines 250-261)
to_service(acct, cl, service) ==
    [name |-> service.name,
     type |-> service.service_type,
     namespace |-> service.namespace,
     classification |-> service.classification,
     cluster |-> cl,
     account_id |-> acct,
     deleted |-> service.deleted,
     service_key |-> get_service_key(service),
     update_time |-> "now()"]

(* -------------------------- inputs and replies ------------------------ *)
\* the block sequences of the enrichments handed to persist_finding
PoolBlocks ==
    {<<MkBlock("MarkdownBlock", "hello", <<>>), MkBlock("DividerBlock", "", <<>>),
       MkBlock("UnknownBlock", "", <<>>)>>,
     <<MkBlock("FileBlock", "", <<"r">>)>>,
     <<MkBlock("FileBlock", "", <<"a", ".", "t">>)>>}

Enrichments == {[category |-> None, blocks |-> bs] : bs \in PoolBlocks}

RECURSIVE SeqsUpTo(_, _)
SeqsUpTo(S, n) ==
    IF n = 0 THEN {<<>>}
    ELSE LET shorter == SeqsUpTo(S, n - 1)
         IN  shorter \cup {Append(q, x) : q \in shorter, x \in S}

MkFinding(es) ==
    [aggregation_key |-> "key", severity |-> "HIGH", fingerprint |-> "abc",
     subject_name |-> "pod", subject_namespace |-> "ns", enrichments |-> es]

Findings == {MkFinding(es) : es \in SeqsUpTo(Enrichments, MaxEnrichments)}

Services ==
    {[name |-> "svc", service_type |-> "Deployment", namespace |-> "ns",
      classification |-> c, deleted |-> d] : c \in {"c1", "c2"}, d \in BOOLEAN}

NoFinding == MkFinding(<<>>)
NoService ==
    [name |-> "", service_type |-> "", namespace |-> "", classification |-> "",
     deleted |-> FALSE]

\* what a remote call can do: raise (transport failure, undecodable body)
\* or answer with the envelope {status_code, data} (lines 93-96)
Raise == [kind |-> "raise"]
Resp(s, d) == [kind |-> "resp", status_code |-> s, data |-> d]

IssueData ==
    {<<>>} \cup {<<[id |-> i, inserted |-> b]>> : i \in FindingIds, b \in BOOLEAN}
IssueReplies == {Raise} \cup {Resp(s, d) : s \in StatusCodes, d \in IssueData}
WriteReplies == {Raise} \cup {Resp(s, <<>>) : s \in StatusCodes}

GoodRow(ns) ==
    [name |-> "svc", type |-> "Deployment", namespace |-> ns,
     classification |-> "c1"]
\* a row without the key "classification"
BadRow == [name |-> "svc", type |-> "Deployment", namespace |-> "ns"]
QueryData == {<<>>, <<GoodRow("ns")>>, <<GoodRow("ns"), GoodRow("kube")>>, <<BadRow>>}
QueryReplies == {Raise} \cup {Resp(s, d) : s \in StatusCodes, d \in QueryData}

\* the outcomes of client.auth.sign_in (line 303)
AuthReplies == {"ok", "raise"}

(* ------------------------------- state --------------------------------- *)
VARIABLES
    account_id,     \* self.account_id
    cluster,        \* self.cluster
    sink_name,      \* self.sink_name
    clock,          \* time.time()
    sign_in_time,   \* self.sign_in_time
    token,          \* the session's access token: number of successful sign-ins
    authCalls,      \* the calls made to client.auth.sign_in, in order
    raced,          \* some thread passed the guard of line 300 while another
                    \* was between that guard and the store of line 302
    th,             \* per thread: position and locals of the running call
    calls,          \* the number of calls made so far on the SupabaseDal
    encIn,          \* the enrichment handed to to_evidence (encoder runs)
    encOut,         \* what to_evidence produced for encIn
    store,          \* the rows of the Services table of a stub store
    has_session,    \* client.auth.current_session is not None
    refreshes       \* the number of runs of the token refresh timer

vars == <<account_id, cluster, sink_name, clock, sign_in_time, token,
          authCalls, raced, th, calls, encIn, encOut, store, has_session,
          refreshes>>

config == <<account_id, cluster, sink_name>>
session == <<sign_in_time, token, authCalls, raced>>
enc == <<encIn, encOut>>
backend == <<store, has_session, refreshes>>

IdleThread ==
    [pc |-> "idle", op |-> "none", finding |-> NoFinding, service |-> NoService,
     idx |-> 0, finding_id |-> None, sent |-> <<>>, attempted |-> <<>>,
     status_code |-> 0, hse |-> 0, via_hse |-> FALSE, signin |-> "none",
     t |-> 0, at_limit |-> FALSE, logs |-> {}, result |-> "none",
     exc |-> "none", value |-> <<>>,
     issue |-> [status_code |-> 0, id |-> None]]

NoEnrichment == [category |-> None, blocks |-> <<>>]

\* the state after __init__ (lines 100-120): sign_in_time starts at 0, the
\* epoch, so the sign_in of line 118 passes the guard and signs in
InitDal ==
    /\ \E tenant \in Tenants : account_id = tenant[1] /\ cluster = tenant[2]
    /\ sink_name = "sink"
    /\ clock = 0
    /\ sign_in_time = 0
    /\ token = 1
    /\ authCalls = <<[thread |-> Caller, at |-> 0, result |-> "ok"]>>
    /\ raced = FALSE
    /\ th = [t \in Threads |-> IdleThread]
    /\ calls = 0
    /\ has_session = TRUE
    /\ refreshes = 0

Init ==
    /\ InitDal
    /\ store = {}
    /\ encIn = NoEnrichment
    /\ encOut = [state |-> "none", record |-> <<>>]

Upd(t, r) == th' = [th EXCEPT ![t] = r]

\* a log entry: the message and, for an enrichment, its position
Log(msg, i) == <<msg, i>>

\* the entries of the send log of a call: the remote procedure or table
\* operation, the position of the enrichment the record encodes (0 for an
\* Issue or a Service) and the record
Sent(fn, i, recs) == [k \in 1..Len(recs) |-> [fn |-> fn, of |-> i, rec |-> recs[k]]]

\* mutant: the session is ignored, the API key is always the bearer
get_auth_headers_key_only(has, tok) ==
    [apiKey |-> "supabase_key", Authorization |-> <<"Bearer", "key", 0>>]

\* RobustaClient._get_auth_headers (lines 49-61), read when the call is
\* made: the access token of the current session if there is one, else the
\* API key
get_auth_headers(has, tok) ==
    [apiKey |-> "supabase_key",
     Authorization |-> IF has /\ tok # 0 THEN <<"Bearer", "jwt", tok>>
                       ELSE <<"Bearer", "key", 0>>]

\* the entries of the send log for RobustaClient.rpc (lines 83-96): the
\* request is posted with the auth headers of that moment
Rpc(fn, i, recs, headers) ==
    [k \in 1..Len(recs) |->
       [fn |-> fn, of |-> i, rec |-> recs[k], bearer |-> headers.Authorization]]

\* the call of thread t ends: it returns or raises exception e
Finish(r, res, e) == [r EXCEPT !.pc = "idle", !.result = res, !.exc = e, !.t = 0]

\* time passes
Tick ==
    /\ clock < MaxClock
    /\ clock' = clock + 1
    /\ UNCHANGED <<config, session, th, calls, enc, backend>>

(* ------------------------- session recovery ---------------------------- *)
\* mutants of the rate limit: an attempt at exactly the interval passes; no
\* limit at all
SignInGuardAtInterval(now, last) == now >= last + SUPABASE_LOGIN_RATE_LIMIT_SEC

SignInGuardNoLimit(now, last) == TRUE

\* mutant: no attempt passes the guard
SignInGuardNever(now, last) == FALSE

\* the rate limit of sign_in (line 300)
SignInGuard(now, last) == now > last + SUPABASE_LOGIN_RATE_LIMIT_SEC

\* mutant: no try/except around the sign_in
HandlerOutcomePropagates(signInRaised) ==
    IF signInRaised THEN "raised" ELSE "returned"

\* the try/except of handle_supabase_error (lines 311-314): how the handler
\* ends when the sign_in inside it raised or not
HandlerOutcome(signInRaised) == "returned"

\* sign_in has ended in thread record r, raising or not: control goes back
\* to handle_supabase_error, if it made the call, and on to the operation
AfterSignIn(r, signInRaised) ==
    LET out == IF r.via_hse THEN HandlerOutcome(signInRaised)
               ELSE IF signInRaised THEN "raised" ELSE "returned"
        r1 == IF r.via_hse /\ signInRaised /\ out = "returned"
              THEN [r EXCEPT !.logs = @ \cup {Log("Failed to signin on error", 0)}]
              ELSE r
    IN  IF out = "raised" THEN Finish(r1, "raised", "AuthError")
        ELSE IF r.op = "get_active_services"
        THEN Finish(r1, "raised", "Failed to get existing services")
        ELSE Finish(r1, "returned", "none")

\* handle_supabase_error is entered (line 311) and calls sign_in (line 312)
HSE_Enter(t) ==
    /\ th[t].pc = "hse"
    /\ Upd(t, [th[t] EXCEPT !.pc = "si_guard", !.via_hse = TRUE, !.hse = @ + 1])
    /\ UNCHANGED <<config, clock, session, calls, enc, backend>>

\* sign_in, line 300: the rate-limit check
SI_Guard(t) ==
    /\ th[t].pc = "si_guard"
    /\ IF SignInGuard(clock, sign_in_time)
       THEN /\ Upd(t, [th[t] EXCEPT !.pc = "si_time", !.signin = "passed"])
            /\ raced' = (raced \/ \E u \in Threads \ {t} :
                                     th[u].pc \in {"si_time", "si_store"})
       ELSE /\ Upd(t, AfterSignIn(
                        [th[t] EXCEPT !.signin = "skipped",
                           !.at_limit = (clock = sign_in_time
                                           + SUPABASE_LOGIN_RATE_LIMIT_SEC)],
                        FALSE))
            /\ UNCHANGED raced
    /\ UNCHANGED <<config, clock, sign_in_time, token, authCalls, calls, enc, backend>>

\* sign_in, line 302: time.time() is read
SI_Time(t) ==
    /\ th[t].pc = "si_time"
    /\ Upd(t, [th[t] EXCEPT !.pc = "si_store", !.t = clock])
    /\ UNCHANGED <<config, clock, session, calls, enc, backend>>

\* sign_in, line 302: self.sign_in_time is assigned
SI_Store(t) ==
    /\ th[t].pc = "si_store"
    /\ sign_in_time' = th[t].t
    /\ Upd(t, [th[t] EXCEPT !.pc = "si_auth"])
    /\ UNCHANGED <<config, clock, token, authCalls, raced, calls, enc, backend>>

\* mutant: an attempt that raised gives its timestamp back
SignInTimeClearedOnFailure(stored, reply) ==
    IF reply = "raise" THEN 0 ELSE stored

\* sign_in, lines 302-303: the timestamp is assigned before the call to the
\* auth backend and nothing touches it after the call, whatever its outcome
SignInTimeAfterAuth(stored, reply) == stored

\* sign_in, line 303: the call to the auth backend
SI_Auth(t) ==
    /\ th[t].pc = "si_auth"
    /\ \E a \in AuthReplies :
         /\ authCalls' = Append(authCalls,
                                [thread |-> t, at |-> th[t].t, result |-> a])
         /\ sign_in_time' = SignInTimeAfterAuth(sign_in_time, a)
         /\ token' = IF a = "ok" THEN token + 1 ELSE token
         /\ has_session' = IF a = "ok" THEN TRUE ELSE has_session
         /\ Upd(t, AfterSignIn([th[t] EXCEPT !.signin = a], a = "raise"))
    /\ UNCHANGED <<config, clock, raced, calls, enc, store, refreshes>>

\* the refresh timer started by RobustaAuthClient._set_timeout (lines 39-45)
\* runs: the session gets a new access token, or the refresh fails and the
\* client is left without a session (lines 307-308)
Refresh ==
    /\ has_session
    /\ refreshes < MaxRefresh
    /\ refreshes' = refreshes + 1
    /\ \/ token' = token + 1 /\ has_session' = TRUE
       \/ token' = token /\ has_session' = FALSE
    /\ UNCHANGED <<config, clock, sign_in_time, authCalls, raced, th, calls,
                   enc, store>>

\* a caller invokes sign_in
CallSignIn(t) ==
    /\ th[t].pc = "idle"
    /\ calls < MaxCalls
    /\ Upd(t, [IdleThread EXCEPT !.pc = "si_guard", !.op = "sign_in"])
    /\ calls' = calls + 1
    /\ UNCHANGED <<config, clock, session, enc, backend>>

\* a caller invokes handle_supabase_error
CallHandleSupabaseError(t) ==
    /\ th[t].pc = "idle"
    /\ calls < MaxCalls
    /\ Upd(t, [IdleThread EXCEPT !.pc = "hse", !.op = "handle_supabase_error"])
    /\ calls' = calls + 1
    /\ UNCHANGED <<config, clock, session, enc, backend>>

(* --------------------------- persistence ------------------------------- *)
\* mutant: only 200 is taken as success, 201 starts the recovery
WriteAcceptedOnly200(status) == status = 200

\* the status check of the write paths (lines 227, 245, 268)
WriteAccepted(status) == status \in {200, 201}

\* mutant: the read path takes the status check of the write paths
GasAcceptedLikeWrites(status) == status \in {200, 201}

\* the status check of get_active_services (line 283)
GasAccepted(status) == status \in {200}

\* mutant: a rejected record is posted again
SendsWithRetry(rec, rep) ==
    IF rep.kind = "resp" /\ ~WriteAccepted(rep.status_code)
    THEN <<rec, rec>> ELSE <<rec>>

\* the records one remote write posts (lines 226, 242-244, 265-267): the
\* record, once, whatever the reply
Sends(rec, rep) == <<rec>>

\* mutant: the loop stops at the first rejected enrichment
NextIdxBreak(idx, n, status) == IF WriteAccepted(status) THEN idx + 1 ELSE n + 1

\* the for loop of persist_finding (lines 241-248) goes to the next
\* enrichment whatever the status of the insert; n is the number of them
NextIdx(idx, n, status) == idx + 1

\* mutant: the enrichments are filed under a fixed id, not the returned one
FindingIdFixed(res_data) == "id1"

\* persist_finding, line 234: the finding id is the id of the returned row
FindingId(res_data) == res_data.id

\* mutant: a finding that already existed is handled as a rejected insert
AfterIssueInsertDropsExisting(inserted) ==
    IF inserted THEN "pf_enrich" ELSE "hse"

\* persist_finding, lines 235-241: whether the row was inserted or already
\* existed, control goes on to the loop over the enrichments
AfterIssueInsert(inserted) == "pf_enrich"

\* a caller invokes persist_finding(finding)
CallPersistFinding(t, f) ==
    /\ th[t].pc = "idle"
    /\ calls < MaxCalls
    /\ Upd(t, [IdleThread EXCEPT !.pc = "pf_insert", !.op = "persist_finding",
                                 !.finding = f])
    /\ calls' = calls + 1
    /\ UNCHANGED <<config, clock, session, enc, backend>>

\* persist_finding, lines 226-239, when the Issue insert is answered by rep
PF_IssueStep(t, rep) ==
    LET rec == to_issue(account_id, cluster, th[t].finding)
        r0 == [th[t] EXCEPT
                 !.sent = @ \o Rpc("insert_finding_v1", 0, Sends(rec, rep),
                                   get_auth_headers(has_session, token))]
        r1 == IF rep.kind = "raise" THEN r0
              ELSE [r0 EXCEPT !.status_code = rep.status_code]
    IN  IF rep.kind = "raise"
        THEN Upd(t, Finish(r1, "raised", "TransportError"))
        ELSE IF ~WriteAccepted(rep.status_code)
        THEN Upd(t, [r1 EXCEPT !.pc = "hse",
                       !.logs = @ \cup {Log("Failed to persist finding", 0)}])
        ELSE IF rep.data = <<>>
        THEN Upd(t, Finish(r1, "raised", "IndexError"))
        ELSE Upd(t, [r1 EXCEPT
                       !.pc = AfterIssueInsert(rep.data[1].inserted),
                       !.idx = 1,
                       !.finding_id = FindingId(rep.data[1]),
                       !.issue = [status_code |-> rep.status_code,
                                  id |-> rep.data[1].id],
                       !.logs = IF rep.data[1].inserted THEN @
                                ELSE @ \cup {Log("this finding already exists", 0)}])

\* persist_finding, lines 226-239: the Issue insert
PF_InsertIssue(t) ==
    /\ th[t].pc = "pf_insert"
    /\ \E rep \in IssueReplies : PF_IssueStep(t, rep)
    /\ UNCHANGED <<config, clock, session, calls, enc, backend>>

\* persist_finding, lines 241-248: one pass of the loop over the enrichments
PF_Enrichment(t) ==
    /\ th[t].pc = "pf_enrich"
    /\ th[t].idx <= Len(th[t].finding.enrichments)
    /\ LET r == th[t]
           n == Len(r.finding.enrichments)
           e == r.finding.enrichments[r.idx]
           r1 == [r EXCEPT !.attempted = Append(@, r.idx)]
       IN  IF ToEvidenceRaises(e)
           THEN Upd(t, Finish(r1, "raised", "ValueError"))
           ELSE \E rep \in WriteReplies :
                  LET rec == to_evidence(account_id, TARGET_ID, sink_name,
                                         r.finding_id, e)
                      r2 == [r1 EXCEPT !.sent = @ \o
                               Rpc("insert_enrichment_v1", r.idx, Sends(rec, rep),
                                   get_auth_headers(has_session, token))]
                  IN  IF rep.kind = "raise"
                      THEN Upd(t, Finish(r2, "raised", "TransportError"))
                      ELSE Upd(t, [r2 EXCEPT
                             !.status_code = rep.status_code,
                             !.idx = NextIdx(r.idx, n, rep.status_code),
                             !.logs = IF WriteAccepted(rep.status_code) THEN @
                                      ELSE @ \cup {Log("Failed to persist enrichment",
                                                       r.idx)}])
    /\ UNCHANGED <<config, clock, session, calls, enc, backend>>

\* persist_finding: the loop is over and the call returns
PF_Return(t) ==
    /\ th[t].pc = "pf_enrich"
    /\ th[t].idx > Len(th[t].finding.enrichments)
    /\ Upd(t, Finish(th[t], "returned", "none"))
    /\ UNCHANGED <<config, clock, session, calls, enc, backend>>

\* a caller invokes persist_service(service)
CallPersistService(t, s) ==
    /\ th[t].pc = "idle"
    /\ calls < MaxCalls
    /\ Upd(t, [IdleThread EXCEPT !.pc = "ps_upsert", !.op = "persist_service",
                                 !.service = s])
    /\ calls' = calls + 1
    /\ UNCHANGED <<config, clock, session, enc, backend>>

\* mutant: the service is written with a plain insert
ServiceWritePlainInsert(db_service) ==
    [table |-> SERVICES_TABLE, op |-> "insert", upsert |-> FALSE,
     rec |-> db_service]

\* the write persist_service builds (lines 265-267): an insert into the
\* Services table with upsert=True
ServiceWrite(db_service) ==
    [table |-> SERVICES_TABLE, op |-> "insert", upsert |-> TRUE,
     rec |-> db_service]

\* the name of a table write in the send log
WriteName(req) ==
    IF req.upsert THEN "Services.upsert" ELSE "Services.insert"

\* persist_service, lines 264-272, when the write is answered by rep
PS_Step(t, rep) ==
    LET req == ServiceWrite(to_service(account_id, cluster, th[t].service))
        r0 == [th[t] EXCEPT
                 !.sent = @ \o Sent(WriteName(req), 0, Sends(req.rec, rep))]
        r1 == IF rep.kind = "raise" THEN r0
              ELSE [r0 EXCEPT !.status_code = rep.status_code]
    IN  IF rep.kind = "raise"
        THEN Upd(t, Finish(r1, "raised", "TransportError"))
        ELSE IF ~WriteAccepted(rep.status_code)
        THEN Upd(t, [r1 EXCEPT !.pc = "hse",
                       !.logs = @ \cup {Log("Failed to persist service", 0)}])
        ELSE Upd(t, Finish(r1, "returned", "none"))

\* persist_service, lines 264-272
PS_Upsert(t) ==
    /\ th[t].pc = "ps_upsert"
    /\ \E rep \in WriteReplies : PS_Step(t, rep)
    /\ UNCHANGED <<config, clock, session, calls, enc, backend>>

\* a caller invokes get_active_services()
CallGetActiveServices(t) ==
    /\ th[t].pc = "idle"
    /\ calls < MaxCalls
    /\ Upd(t, [IdleThread EXCEPT !.pc = "gas_query", !.op = "get_active_services"])
    /\ calls' = calls + 1
    /\ UNCHANGED <<config, clock, session, enc, backend>>

\* the ServiceInfo built from one row (lines 290-295)
RowToServiceInfo(row) ==
    [name |-> row.name, service_type |-> row.type, namespace |-> row.namespace,
     classification |-> row.classification, deleted |-> FALSE]

RowIsComplete(row) ==
    {"name", "type", "namespace", "classification"} \subseteq DOMAIN row

\* mutant: the query does not filter on the deleted flag
ActiveServicesQueryAnyState(acct, cl) ==
    [table |-> SERVICES_TABLE,
     columns |-> {"name", "type", "namespace", "classification"},
     filters |-> {[col |-> "account_id", val |-> <<acct>>],
                  [col |-> "cluster", val |-> <<cl>>]}]

\* the query get_active_services builds (lines 275-282): four columns of the
\* Services table, filtered by eq on account_id, cluster and deleted
ActiveServicesQuery(acct, cl) ==
    [table |-> SERVICES_TABLE,
     columns |-> {"name", "type", "namespace", "classification"},
     filters |-> {[col |-> "account_id", val |-> <<acct>>],
                  [col |-> "cluster", val |-> <<cl>>],
                  [col |-> "deleted", val |-> <<FALSE>>]}]

\* get_active_services, lines 275-297, when the query is answered by rep
GAS_Step(t, rep) ==
    LET r == IF rep.kind = "raise" THEN th[t]
             ELSE [th[t] EXCEPT !.status_code = rep.status_code]
    IN  IF rep.kind = "raise"
        THEN Upd(t, Finish(r, "raised", "TransportError"))
        ELSE IF ~GasAccepted(rep.status_code)
        THEN Upd(t, [r EXCEPT !.pc = "hse",
                       !.logs = @ \cup {Log("Failed to get existing services", 0)}])
        ELSE IF \E i \in 1..Len(rep.data) : ~RowIsComplete(rep.data[i])
        THEN Upd(t, Finish(r, "raised", "KeyError"))
        ELSE Upd(t, Finish([r EXCEPT !.value =
                              [i \in 1..Len(rep.data) |->
                                 RowToServiceInfo(rep.data[i])]],
                           "returned", "none"))

\* get_active_services, lines 275-297
GAS_Query(t) ==
    /\ th[t].pc = "gas_query"
    /\ \E rep \in QueryReplies : GAS_Step(t, rep)
    /\ UNCHANGED <<config, clock, session, calls, enc, backend>>

(* ------------------------------ stub store ----------------------------- *)
\* the services the stub store holds at the start: for every tenant id and
\* cluster one active and one deleted service
StubServices ==
    {[acct |-> "acctA", cl |-> "clusterA", name |-> "aA", deleted |-> FALSE],
     [acct |-> "acctA", cl |-> "clusterA", name |-> "aA-del", deleted |-> TRUE],
     [acct |-> "acctA", cl |-> "clusterB", name |-> "aB", deleted |-> FALSE],
     [acct |-> "acctA", cl |-> "clusterB", name |-> "aB-del", deleted |-> TRUE],
     [acct |-> "acctB", cl |-> "clusterA", name |-> "bA", deleted |-> FALSE],
     [acct |-> "acctB", cl |-> "clusterA", name |-> "bA-del", deleted |-> TRUE],
     [acct |-> "acctB", cl |-> "clusterB", name |-> "bB", deleted |-> FALSE],
     [acct |-> "acctB", cl |-> "clusterB", name |-> "bB-del", deleted |-> TRUE]}

\* the row the stub store keeps for a written record; prev is the
\* classification of the row it replaced
StubRow(rec, prev) ==
    [name |-> rec.name, type |-> rec.type, namespace |-> rec.namespace,
     classification |-> rec.classification, cluster |-> rec.cluster,
     account_id |-> rec.account_id, deleted |-> rec.deleted,
     service_key |-> rec.service_key, prev |-> prev]

StubRows ==
    {StubRow(to_service(s.acct, s.cl,
                        [name |-> s.name, service_type |-> "Deployment",
                         namespace |-> "ns", classification |-> "c1",
                         deleted |-> s.deleted]), None) : s \in StubServices}

\* the stub store executes a write: an upsert replaces the row of the same
\* service_key, a plain insert adds a row
StubWrite(st, req) ==
    LET same == {row \in st : row.service_key = req.rec.service_key}
        prev == IF same = {} THEN None
                ELSE (CHOOSE row \in same : TRUE).classification
        new  == StubRow(req.rec, prev)
    IN  IF req.upsert THEN (st \ same) \cup {new} ELSE st \cup {new}

\* the stub store executes a query: the rows that pass every filter,
\* projected on the columns asked for
StubSelect(st, q) ==
    {[c \in q.columns |-> row[c]] :
       row \in {x \in st : \A f \in q.filters : <<x[f.col]>> = f.val}}

RECURSIVE SetToSeq(_)
SetToSeq(S) ==
    IF S = {} THEN <<>>
    ELSE LET x == CHOOSE y \in S : TRUE
         IN  <<x>> \o SetToSeq(S \ {x})

\* persist_service against the stub store, which accepts the write
PS_UpsertStub(t) ==
    /\ th[t].pc = "ps_upsert"
    /\ PS_Step(t, Resp(201, <<>>))
    /\ store' = StubWrite(store, ServiceWrite(to_service(account_id, cluster,
                                                         th[t].service)))
    /\ UNCHANGED <<config, clock, session, calls, enc, has_session, refreshes>>

\* get_active_services against the stub store, which answers the query
GAS_QueryStub(t) ==
    /\ th[t].pc = "gas_query"
    /\ GAS_Step(t, Resp(200, SetToSeq(StubSelect(store,
                                ActiveServicesQuery(account_id, cluster)))))
    /\ UNCHANGED <<config, clock, session, calls, enc, backend>>

(* ---------------------------- specifications --------------------------- *)
\* one caller runs the operations one after the other
Next ==
    \/ Tick
    \/ \E f \in Findings : CallPersistFinding(Caller, f)
    \/ PF_InsertIssue(Caller)
    \/ PF_Enrichment(Caller)
    \/ PF_Return(Caller)
    \/ \E s \in Services : CallPersistService(Caller, s)
    \/ PS_Upsert(Caller)
    \/ CallGetActiveServices(Caller)
    \/ GAS_Query(Caller)
    \/ CallSignIn(Caller)
    \/ CallHandleSupabaseError(Caller)
    \/ HSE_Enter(Caller)
    \/ SI_Guard(Caller)
    \/ SI_Time(Caller)
    \/ SI_Store(Caller)
    \/ SI_Auth(Caller)

Spec == Init /\ [][Next]_vars

\* several threads call sign_in and handle_supabase_error on the same
\* SupabaseDal
ConcNext ==
    \/ Tick
    \/ \E t \in Threads :
         \/ CallSignIn(t)
         \/ CallHandleSupabaseError(t)
         \/ HSE_Enter(t)
         \/ SI_Guard(t)
         \/ SI_Time(t)
         \/ SI_Store(t)
         \/ SI_Auth(t)

SpecConc == Init /\ [][ConcNext]_vars

\* the encoder alone: to_evidence is applied to one enrichment, drawn from
\* all block sequences of at most MaxBlocks blocks
EncInputs == {[category |-> None, blocks |-> bs] : bs \in SeqsUpTo(Blocks, MaxBlocks)}

EncInit ==
    /\ InitDal
    /\ store = {}
    /\ store = {}
    /\ encIn \in EncInputs
    /\ encOut = [state |-> "none", record |-> <<>>]

\* a call of to_evidence(finding_id, encIn) (lines 144-223)
Encode ==
    /\ encOut.state = "none"
    /\ \E fid \in FindingIds :
         encOut' = IF ToEvidenceRaises(encIn)
                   THEN [state |-> "raised", record |-> <<>>]
                   ELSE [state |-> "returned",
                         record |-> to_evidence(account_id, TARGET_ID,
                                                sink_name, fid, encIn)]
    /\ UNCHANGED <<config, clock, session, th, calls, encIn, backend>>

EncNext == Encode

SpecEnc == EncInit /\ [][EncNext]_vars

\* the findings of the runs that follow the session: enrichments of one
\* Markdown block
SessionFindings ==
    {MkFinding(es) :
       es \in SeqsUpTo({[category |-> None,
                         blocks |-> <<MkBlock("MarkdownBlock", "hello", <<>>)>>]},
                       MaxEnrichments)}

\* time passes until a sign-in can pass the rate limit again
SessionTick == clock <= SUPABASE_LOGIN_RATE_LIMIT_SEC /\ Tick

\* one caller persists findings while the refresh timer of the auth client
\* runs beside it
SessionNext ==
    \/ SessionTick
    \/ Refresh
    \/ \E f \in SessionFindings : CallPersistFinding(Caller, f)
    \/ PF_InsertIssue(Caller)
    \/ PF_Enrichment(Caller)
    \/ PF_Return(Caller)
    \/ HSE_Enter(Caller)
    \/ SI_Guard(Caller)
    \/ SI_Time(Caller)
    \/ SI_Store(Caller)
    \/ SI_Auth(Caller)

SpecSession == Init /\ [][SessionNext]_vars

\* a caller starts an operation with thread record r. Time and tokens are
\* counted from the last sign-in call, so that a run of any length stays
\* within the bounds: the time elapsed since that call is kept
LiveStart(t, r) ==
    /\ th[t].pc = "idle"
    /\ Upd(t, r)
    /\ clock' = clock - sign_in_time
    /\ sign_in_time' = 0
    /\ authCalls' = <<[thread |-> t, at |-> 0,
                       result |-> authCalls[Len(authCalls)].result]>>
    /\ token' = 1
    /\ UNCHANGED <<config, raced, calls, enc, backend>>

\* the caller invokes persist_finding, persist_service or get_active_services
LiveCall(t) ==
    \/ \E f \in SessionFindings :
         LiveStart(t, [IdleThread EXCEPT !.pc = "pf_insert",
                                         !.op = "persist_finding", !.finding = f])
    \/ \E s \in Services :
         LiveStart(t, [IdleThread EXCEPT !.pc = "ps_upsert",
                                         !.op = "persist_service", !.service = s])
    \/ LiveStart(t, [IdleThread EXCEPT !.pc = "gas_query",
                                       !.op = "get_active_services"])

\* the backend rejects what it is sent
RejectingReply == Resp(401, <<>>)

\* the remote call of the running operation is answered with a rejection
LiveRejected(t) ==
    /\ \/ th[t].pc = "pf_insert" /\ PF_IssueStep(t, RejectingReply)
       \/ th[t].pc = "ps_upsert" /\ PS_Step(t, RejectingReply)
       \/ th[t].pc = "gas_query" /\ GAS_Step(t, RejectingReply)
    /\ UNCHANGED <<config, clock, session, calls, enc, backend>>

\* the steps of the thread that runs the operations
LiveThread(t) ==
    \/ LiveRejected(t)
    \/ HSE_Enter(t)
    \/ SI_Guard(t)
    \/ SI_Time(t)
    \/ SI_Store(t)
    \/ SI_Auth(t)

LiveNext ==
    \/ Tick
    \/ LiveCall(Caller)
    \/ LiveThread(Caller)

\* the operations keep being called and keep being rejected while time
\* passes: the clock advances, the caller comes back with a next operation,
\* and a thread that runs an operation goes on to its next statement
SpecLive ==
    /\ Init
    /\ [][LiveNext]_vars
    /\ WF_vars(Tick)
    /\ WF_vars(LiveCall(Caller))
    /\ WF_vars(LiveThread(Caller))

\* one caller persists and reads services against the stub store, which
\* starts with the rows of several tenants and clusters, deleted or not
StoreInit ==
    /\ InitDal
    /\ \E X \in SUBSET StubRows : Cardinality(X) <= 1 /\ store = StubRows \ X
    /\ encIn = NoEnrichment
    /\ encOut = [state |-> "none", record |-> <<>>]

StoreNext ==
    \/ \E s \in Services : CallPersistService(Caller, s)
    \/ PS_UpsertStub(Caller)
    \/ CallGetActiveServices(Caller)
    \/ GAS_QueryStub(Caller)

SpecStore == StoreInit /\ [][StoreNext]_vars

TypeOK ==
    /\ clock \in 0..MaxClock
    /\ sign_in_time \in 0..MaxClock
    /\ \A t \in Threads : th[t].result \in {"none", "returned", "raised"}

(* ------------------------------- claims -------------------------------- *)
UpTo(k) == [i \in 1..k |-> i]

RejectionLogs ==
    {"Failed to persist finding", "Failed to persist enrichment",
     "Failed to persist service"}

C2_Original ==
    \A t \in Threads :
      th[t].op \in {"persist_finding", "persist_service"}
        => th[t].result # "raised"

\* C3: every write the backend rejects (Issue insert, enrichment insert,
\* service upsert) has triggered handle_supabase_error by the end of the call.
C3_Original ==
    \A t \in Threads :
      (th[t].pc = "idle" /\ \E e \in th[t].logs : e[1] \in RejectionLogs)
        => th[t].hse >= 1

\* C4: within one call of persist_finding or persist_service no record is
\* posted twice, also once the session-recovery step has run: at most one
\* Issue, at most one Evidence record per enrichment, at most one Service.
C4_AtMostOnce ==
    \A t \in Threads :
      LET r == th[t]
      IN  r.op \in {"persist_finding", "persist_service"} =>
            /\ \A i \in 0..Len(r.finding.enrichments) :
                 Cardinality({k \in DOMAIN r.sent : r.sent[k].of = i}) <= 1
            /\ \A k \in DOMAIN r.sent :
                 /\ r.sent[k].of = 0 <=>
                      r.sent[k].fn \in {"insert_finding_v1", "Services.upsert"}
                 /\ r.sent[k].of \in 0..Len(r.finding.enrichments)
            /\ r.op = "persist_service" => Len(r.sent) <= 1

\* a rejected upsert, followed by a re-login that was made, and no resend
C4_Witness ==
    \E t \in Threads :
      /\ th[t].op = "persist_service" /\ th[t].pc = "idle"
      /\ th[t].hse = 1 /\ th[t].signin = "ok"
      /\ ~WriteAccepted(th[t].status_code)
      /\ Len(th[t].sent) = 1

\* C5: get_active_services ends by raising whenever the status code of the
\* query is not 200, whatever the re-login on the way did, and returns a
\* result only for status 200.
C5_ReadFailureRaises ==
    \A t \in Threads :
      LET r == th[t]
      IN  (r.op = "get_active_services" /\ r.pc = "idle") =>
            /\ r.status_code # 200 => r.result = "raised"
            /\ r.status_code \notin {0, 200} =>
                 /\ r.exc = "Failed to get existing services"
                 /\ r.hse = 1
            /\ r.result = "returned" => r.status_code = 200

\* status 201 on the query, the re-login raised, the call still raised
C5_Witness ==
    \E t \in Threads :
      /\ th[t].op = "get_active_services" /\ th[t].pc = "idle"
      /\ th[t].status_code = 201 /\ th[t].signin = "raise"
      /\ th[t].result = "raised"

\* the distance in time between two sign-in calls
Apart(c1, c2) == IF c1.at >= c2.at THEN c1.at - c2.at ELSE c2.at - c1.at

\* every two calls made to the auth backend are more than the minimum
\* interval apart
Separated ==
    \A i, j \in 1..Len(authCalls) :
      i # j => Apart(authCalls[i], authCalls[j]) > SUPABASE_LOGIN_RATE_LIMIT_SEC

\* C6: for a single caller, an attempt made less than the minimum interval
\* after the last sign-in call is skipped, an attempt made more than the
\* interval after it is performed, and any two sign-in calls are more than
\* the interval apart.
C6_RateLimit ==
    /\ [](\A i \in 1..Len(authCalls) - 1 :
            authCalls[i + 1].at - authCalls[i].at > SUPABASE_LOGIN_RATE_LIMIT_SEC)
    /\ [][(th[Caller].pc = "si_guard" /\ th'[Caller].pc # "si_guard") =>
            LET elapsed == clock - authCalls[Len(authCalls)].at
            IN  /\ elapsed < SUPABASE_LOGIN_RATE_LIMIT_SEC
                     => th'[Caller].signin = "skipped"
                /\ elapsed > SUPABASE_LOGIN_RATE_LIMIT_SEC
                     => th'[Caller].signin = "passed"]_vars

\* a second sign-in call was made after the interval, and the attempt that
\* followed it within the interval was skipped
C6_Witness ==
    /\ Len(authCalls) = 2
    /\ th[Caller].pc = "idle" /\ th[Caller].signin = "skipped"
    /\ clock - authCalls[2].at < SUPABASE_LOGIN_RATE_LIMIT_SEC

\* C7 as stated: whatever the interleaving of the threads, no two sign-in
\* calls fall within one minimum interval.
C7_Original == Separated

\* C7 amended: no two sign-in calls fall within one minimum interval unless
\* a thread made the rate-limit check of line 300 while another thread had
\* passed it and not yet stored its timestamp (line 302); threads that race
\* through lines 300-302 may each call the auth backend in the same window.
C7_Amended == ~raced => Separated

\* two threads have signed in without a race
C7_Witness ==
    /\ ~raced
    /\ \E i, j \in 1..Len(authCalls) :
         /\ authCalls[i].thread # authCalls[j].thread
         /\ i > 1 /\ j > 1

\* C8: handle_supabase_error returns normally whatever the sign-in inside
\* it does; no operation that went through it ends with the exception of
\* the auth backend.
C8_HandlerNeverRaises ==
    \A t \in Threads :
      /\ th[t].op = "handle_supabase_error" => th[t].result # "raised"
      /\ th[t].via_hse => th[t].exc # "AuthError"

\* the sign-in inside handle_supabase_error raised and the handler returned
C8_Witness ==
    \E t \in Threads :
      /\ th[t].op = "handle_supabase_error" /\ th[t].pc = "idle"
      /\ th[t].signin = "raise" /\ th[t].result = "returned"

\* the blocks the claim keeps: all but Markdown blocks of empty text and
\* blocks of unrecognized variant
Kept(b) ==
    /\ ~(b.kind = "MarkdownBlock" /\ b.text = "")
    /\ b.kind \in BlockKinds \ {"UnknownBlock"}

\* C9: for every block sequence, to_evidence does not raise and its
\* structured data is the sequence of the kept blocks, in order, one entry
\* each.
C9_Original ==
    encOut.state # "none" =>
      /\ encOut.state = "returned"
      /\ LET kept == SelectSeq(encIn.blocks, Kept)
             sd == encOut.record.data.json
         IN  /\ Len(sd) = Len(kept)
             /\ \A i \in 1..Len(kept) :
                  <<sd[i]>> = EncodeBlock(kept[i], TARGET_ID, sink_name)

\* the part of C9 the code keeps: when no File block lacks a '.', the
\* structured data is the sequence of the kept blocks, in order, one entry each
EncoderFilterMap ==
    (encOut.state # "none" /\ ~ToEvidenceRaises(encIn)) =>
      /\ encOut.state = "returned"
      /\ LET kept == SelectSeq(encIn.blocks, Kept)
             sd == encOut.record.data.json
         IN  /\ Len(sd) = Len(kept)
             /\ \A i \in 1..Len(kept) :
                  <<sd[i]>> = EncodeBlock(kept[i], TARGET_ID, sink_name)

\* C10: every record posted carries account_id bound to the tenant id of
\* the SupabaseDal; a Service record carries cluster, and an Issue record
\* subject_cluster, bound to its cluster name.
C10_TenantBinding ==
    \A t \in Threads :
      \A k \in DOMAIN th[t].sent :
        LET e == th[t].sent[k]
        IN  /\ "account_id" \in DOMAIN e.rec
            /\ e.rec.account_id = account_id
            /\ e.fn = "Services.upsert" => e.rec.cluster = cluster
            /\ e.fn = "insert_finding_v1" => e.rec.subject_cluster = cluster

\* an Issue record and an Evidence record have been posted
C10_Witness ==
    \E t \in Threads :
      \E k, l \in DOMAIN th[t].sent :
        /\ th[t].sent[k].fn = "insert_finding_v1"
        /\ th[t].sent[l].fn = "insert_enrichment_v1"


SignInPcs == {"hse", "si_guard", "si_time", "si_store", "si_auth"}

\* C11: when the Issue insert is accepted and reports that the finding
\* already existed, persist_finding handles it as an update: the
\* session-recovery path is not entered, no failure is logged for the
\* finding, the loop over the enrichments is entered, and the Evidence
\* records carry the finding id the insert returned.
C11_ExistingIsUpdate ==
    \A t \in Threads :
      LET r == th[t]
      IN  (r.op = "persist_finding"
           /\ Log("this finding already exists", 0) \in r.logs) =>
            /\ r.hse = 0 /\ r.pc \notin SignInPcs /\ r.signin = "none"
            /\ Log("Failed to persist finding", 0) \notin r.logs
            /\ r.idx >= 1
            /\ \A k \in DOMAIN r.sent :
                 r.sent[k].fn = "insert_enrichment_v1"
                   => r.sent[k].rec.finding_id = r.issue.id
            /\ (r.pc = "idle" /\ r.result = "returned")
                 => Len(r.sent) = Len(r.finding.enrichments) + 1

\* the finding already existed and its two enrichments were posted
C11_Witness ==
    \E t \in Threads :
      /\ th[t].pc = "idle" /\ th[t].result = "returned"
      /\ Log("this finding already exists", 0) \in th[t].logs
      /\ Len(th[t].sent) = 3
      /\ th[t].sent[3].rec.finding_id = th[t].issue.id

\* C12: once the Issue insert has succeeded, a rejected insert of Ei is
\* followed by no compensating call and does not end the loop: the calls of
\* persist_finding are the Issue insert and then the enrichment inserts in
\* order, the loop goes on to Ei+1 after the rejection of Ei, and a call that
\* returns has posted all of E1..En.
C12_RejectionDoesNotAbort ==
    \A t \in Threads :
      LET r == th[t]
          n == Len(r.finding.enrichments)
      IN  r.op = "persist_finding" =>
            /\ \A k \in DOMAIN r.sent :
                 /\ r.sent[k].of = k - 1
                 /\ r.sent[k].fn = IF k = 1 THEN "insert_finding_v1"
                                   ELSE "insert_enrichment_v1"
            /\ \A i \in 1..n :
                 Log("Failed to persist enrichment", i) \in r.logs =>
                   /\ r.idx > i
                   /\ (r.pc = "idle" /\ i < n) => Len(r.attempted) >= i + 1
            /\ (r.pc = "idle" /\ r.result = "returned" /\ r.idx >= 1)
                 => Len(r.sent) = n + 1

\* the insert of E1 was rejected and the insert of E2 was posted after it
C12_Witness ==
    \E t \in Threads :
      /\ Log("Failed to persist enrichment", 1) \in th[t].logs
      /\ Len(th[t].sent) = 3
      /\ th[t].sent[3].of = 2


\* C20: no Evidence record is sent before the Issue insert has been answered
\* with 200 or 201; every Evidence record sent carries as finding_id the id
\* that Issue insert returned; when the Issue insert is rejected no Evidence
\* record is sent.
C20_EvidenceAfterIssue ==
    \A t \in Threads :
      LET r == th[t]
      IN  r.op = "persist_finding" =>
            /\ \A k \in DOMAIN r.sent :
                 r.sent[k].fn = "insert_enrichment_v1" =>
                   /\ k > 1 /\ r.sent[1].fn = "insert_finding_v1"
                   /\ r.issue.status_code \in {200, 201}
                   /\ r.issue.id \in FindingIds
                   /\ r.sent[k].rec.finding_id = r.issue.id
            /\ (r.issue.status_code \notin {200, 201}
                 \/ Log("Failed to persist finding", 0) \in r.logs)
                 => \A k \in DOMAIN r.sent : r.sent[k].fn = "insert_finding_v1"

\* the Issue insert returned the id "id2" and an Evidence record was sent
\* under it
C20_Witness ==
    \E t \in Threads :
      /\ th[t].issue = [status_code |-> 201, id |-> "id2"]
      /\ Len(th[t].sent) >= 2
      /\ th[t].sent[2].fn = "insert_enrichment_v1"
      /\ th[t].sent[2].rec.finding_id = "id2"

Operations == {"persist_finding", "persist_service", "get_active_services"}

\* the reply that operation op received with status code status was a
\* rejection
Rejected(op, status) ==
    IF op = "get_active_services" THEN status # 200
    ELSE status \notin {200, 201}

\* C19: persist_finding and persist_service answered with 200 or 201, and
\* get_active_services answered with 200, make no sign-in attempt and leave
\* sign_in_time as it was: the recovery path is entered only after a
\* rejection.
C19_SuccessLeavesSession ==
    /\ [](\A t \in Threads :
            LET r == th[t]
            IN  (r.op \in Operations
                 /\ (r.pc \in SignInPcs \/ r.hse >= 1 \/ r.signin # "none"))
                  => /\ r.status_code # 0
                     /\ Rejected(r.op, r.status_code))
    /\ [][\A t \in Threads :
            (th[t].op \in Operations /\ th[t].pc # "idle"
             /\ ~Rejected(th[t].op, th[t].status_code))
              => /\ sign_in_time' = sign_in_time
                 /\ authCalls' = authCalls
                 /\ token' = token]_vars

\* a service upsert answered with 201, at a time when a sign-in attempt would
\* have passed the rate limit, has returned without one
C19_Witness ==
    \E t \in Threads :
      /\ th[t].op = "persist_service" /\ th[t].pc = "idle"
      /\ th[t].result = "returned" /\ th[t].status_code = 201
      /\ th[t].hse = 0 /\ th[t].signin = "none"
      /\ clock > sign_in_time + SUPABASE_LOGIN_RATE_LIMIT_SEC
      /\ Len(authCalls) = 1

\* C16 as stated: an attempt is performed exactly when the time elapsed since
\* the last sign-in is at least the minimum interval, the attempt made at
\* exactly the interval included.
C16_Original ==
    [][\A t \in Threads :
         (th[t].pc = "si_guard" /\ th'[t].pc # "si_guard") =>
           (th'[t].signin = "passed"
              <=> clock - sign_in_time >= SUPABASE_LOGIN_RATE_LIMIT_SEC)]_vars

\* C16 amended: an attempt is performed exactly when the time elapsed since
\* the last sign-in is more than the minimum interval; it is skipped, with no
\* call to the auth backend and the timestamp unchanged, exactly when the
\* elapsed time is at most the interval, so the attempt made at exactly the
\* interval is skipped.
C16_Amended ==
    /\ [][\A t \in Threads :
            (th[t].pc = "si_guard" /\ th'[t].pc # "si_guard") =>
              /\ th'[t].signin = "passed"
                   <=> clock - sign_in_time > SUPABASE_LOGIN_RATE_LIMIT_SEC
              /\ th'[t].signin = "skipped"
                   <=> clock - sign_in_time <= SUPABASE_LOGIN_RATE_LIMIT_SEC
              /\ th'[t].signin = "skipped" =>
                   /\ sign_in_time' = sign_in_time
                   /\ authCalls' = authCalls
                   /\ th'[t].pc = "idle"]_vars
    /\ [](\A t \in Threads :
            th[t].signin = "skipped"
              => th[t].pc \notin {"si_time", "si_store", "si_auth"})

\* an attempt made exactly the interval after the last sign-in was skipped
C16_Witness ==
    \E t \in Threads :
      /\ th[t].pc = "idle" /\ th[t].signin = "skipped"
      /\ th[t].at_limit
      /\ clock = sign_in_time + SUPABASE_LOGIN_RATE_LIMIT_SEC

\* C17 as stated: a File block whose filename has no "." fails alone;
\* to_evidence does not raise and persist_finding goes on with the other
\* blocks and enrichments.
C17_Original ==
    \A t \in Threads :
      (th[t].op = "persist_finding" /\ th[t].pc = "idle")
        => th[t].exc # "ValueError"


\* C13: against the stub store, the services table holds one row for each
\* service_key whatever persist_service has written: every write is an
\* upsert whose service_key is the key of the identity (name, namespace,
\* type), and when a call has returned the row of that key carries the
\* classification of that call, the latest one.
C13_UpsertByKey ==
    /\ \A r1, r2 \in store : r1.service_key = r2.service_key => r1 = r2
    /\ \A t \in Threads :
         LET r == th[t]
         IN  r.op = "persist_service" =>
               /\ \A k \in DOMAIN r.sent :
                    /\ r.sent[k].fn = "Services.upsert"
                    /\ r.sent[k].rec.service_key = get_service_key(r.service)
               /\ (r.pc = "idle" /\ r.result = "returned") =>
                    \E row \in store :
                      /\ row.service_key = get_service_key(r.service)
                      /\ row.classification = r.service.classification
                      /\ row.deleted = r.service.deleted
                      /\ row.account_id = account_id /\ row.cluster = cluster

\* the service was persisted with classification c1 and then with c2: its
\* one row carries c2
C13_Witness ==
    \E t \in Threads, row \in store :
      /\ th[t].op = "persist_service" /\ th[t].pc = "idle"
      /\ th[t].service.classification = "c2"
      /\ row.service_key = get_service_key(th[t].service)
      /\ row.prev = "c1" /\ row.classification = "c2"
      /\ Cardinality({x \in store : x.service_key = row.service_key}) = 1

\* the key of the identity of a returned ServiceInfo
InfoKey(info) == <<info.namespace, info.service_type, info.name>>

\* C14: against the stub store, every service get_active_services returns
\* is a row of the caller's account_id and cluster that is not deleted, and
\* no row that fails one of the three filters is in the result.
C14_ActiveServicesFiltered ==
    \A t \in Threads :
      LET r == th[t]
      IN  (r.op = "get_active_services" /\ r.pc = "idle"
           /\ r.result = "returned") =>
            /\ \A i \in DOMAIN r.value :
                 \E row \in store :
                   /\ row.service_key = InfoKey(r.value[i])
                   /\ row.classification = r.value[i].classification
                   /\ row.account_id = account_id
                   /\ row.cluster = cluster
                   /\ row.deleted = FALSE
            /\ \A row \in store :
                 (row.account_id # account_id \/ row.cluster # cluster
                  \/ row.deleted)
                   => \A i \in DOMAIN r.value :
                        InfoKey(r.value[i]) # row.service_key

\* get_active_services has returned services while the store held a row of
\* another tenant in the caller's cluster, a row of the caller's tenant in
\* another cluster and a deleted row of the caller's own
C14_Witness ==
    \E t \in Threads :
      /\ th[t].op = "get_active_services" /\ th[t].pc = "idle"
      /\ Len(th[t].value) >= 2
      /\ \E x, y, z \in store :
           /\ x.account_id # account_id /\ x.cluster = cluster /\ ~x.deleted
           /\ y.account_id = account_id /\ y.cluster # cluster /\ ~y.deleted
           /\ z.account_id = account_id /\ z.cluster = cluster /\ z.deleted


\* the bearer of the session as it is now: its access token, or the API key
\* when there is no session
CurrentBearer ==
    IF has_session THEN <<"Bearer", "jwt", token>> ELSE <<"Bearer", "key", 0>>

\* C15: every RPC carries as bearer the access token the session has at the
\* moment the call is made, also after the token was rotated by the refresh
\* timer or by a sign-in since the previous call, and the API key when there
\* is no session.
C15_BearerIsCurrent ==
    [][\A t \in Threads :
         \A k \in DOMAIN th'[t].sent :
           (k > Len(th[t].sent)
            /\ th'[t].sent[k].fn \in {"insert_finding_v1", "insert_enrichment_v1"})
             => th'[t].sent[k].bearer = CurrentBearer]_vars

\* three RPCs of one call: the second was made after the refresh timer
\* rotated the token, the third after the session was lost
C15_Witness ==
    \E t \in Threads :
      /\ Len(th[t].sent) = 3
      /\ th[t].sent[1].bearer = <<"Bearer", "jwt", 1>>
      /\ th[t].sent[2].bearer = <<"Bearer", "jwt", 2>>
      /\ th[t].sent[3].bearer = <<"Bearer", "key", 0>>


\* C18: when the operations keep being rejected and time keeps advancing, a
\* sign-in that was skipped or that failed is always followed, later, by an
\* actual call to the auth backend; a sign-in that succeeds gives the session
\* a new token, and the RPCs made from then on carry the token of the
\* session.
C18_ReloginEventually ==
    /\ \A t \in {Caller} :
         (th[t].pc = "idle" /\ th[t].signin \in {"skipped", "raise"})
           ~> (th[t].pc = "si_auth")
    /\ [][\A t \in {Caller} :
            /\ (th[t].pc = "si_auth" /\ th'[t].signin = "ok")
                 => has_session' /\ token' > token
            /\ \A k \in DOMAIN th'[t].sent :
                 (th[t].pc = "pf_insert" /\ has_session)
                   => th'[t].sent[k].bearer = <<"Bearer", "jwt", token>>]_vars

\* the sign-in call of a recovery is about to be made, more than the
\* interval after the last one: the attempts made in between were skipped
C18_Witness ==
    /\ th[Caller].pc = "si_auth" /\ th[Caller].via_hse
    /\ Len(authCalls) = 1 /\ authCalls[1].at = 0
    /\ th[Caller].t > SUPABASE_LOGIN_RATE_LIMIT_SEC
    /\ sign_in_time = th[Caller].t


\* the last call made to the auth backend
LastAuthCall == authCalls[Len(authCalls)]

\* C21: sign_in has recorded the timestamp of the attempt when it calls the
\* auth backend, and an attempt that raised keeps the window: a sign_in or
\* handle_supabase_error made less than the minimum interval after it is
\* skipped without a call to the auth backend, so the call that follows a
\* failed one is at least the interval after it.
C21_FailedAttemptKeepsWindow ==
    /\ [](\A t \in Threads : th[t].pc = "si_auth" => sign_in_time = th[t].t)
    /\ [](\A i \in 1..Len(authCalls) - 1 :
            authCalls[i].result = "raise" =>
              authCalls[i + 1].at - authCalls[i].at
                >= SUPABASE_LOGIN_RATE_LIMIT_SEC)
    /\ [][\A t \in Threads :
            (/\ th[t].pc = "si_guard" /\ th'[t].pc # "si_guard"
             /\ LastAuthCall.result = "raise"
             /\ clock - LastAuthCall.at < SUPABASE_LOGIN_RATE_LIMIT_SEC)
              => /\ th'[t].signin = "skipped"
                 /\ th'[t].pc \notin {"si_time", "si_store", "si_auth"}
                 /\ authCalls' = authCalls
                 /\ sign_in_time' = sign_in_time]_vars

\* the last call to the auth backend raised, and the attempt made within
\* the interval after it was skipped
C21_Witness ==
    /\ Len(authCalls) = 2
    /\ LastAuthCall.result = "raise"
    /\ th[Caller].pc = "idle" /\ th[Caller].signin = "skipped"
    /\ clock - LastAuthCall.at < SUPABASE_LOGIN_RATE_LIMIT_SEC

====
